---- MODULE Spec2Model ----
(***************************************************************************)
(* Model of the App component of src/index.tsx: the React state (code,     *)
(* language, isLoading, result, error), the handlers that change it        *)
(* (textarea / select onChange, handleFileChange and its FileReader        *)
(* callbacks, analyzeCode and the continuation that runs when the          *)
(* generateContent promise settles) and the render of the result panel.    *)
(*                                                                         *)
(* JavaScript values are tagged records: [t |-> "string", s |-> ...],      *)
(* [t |-> "number", n |-> ...], [t |-> "object", f |-> <function from      *)
(* property names to values>], [t |-> "array", a |-> <sequence>], ...      *)
(* A string that the code inspects character by character (the code text,  *)
(* a file name) is a sequence of one-character strings.                    *)
(***************************************************************************)
EXTENDS Integers, Sequences, FiniteSets, TLC

VARIABLES
    code,       \* useState<string>('')                       (line 22)
    language,   \* useState<string>('javascript')             (line 23)
    isLoading,  \* useState<boolean>(false)                   (line 24)
    result,     \* useState<AnalysisResult | null>(null)      (line 25)
    error,      \* useState<string | null>(null)              (line 26)
    pending,    \* generateContent calls awaiting settlement: the prompts sent
    readers,    \* FileReader.readAsText calls that have not called back yet
    crashed     \* the last render threw: React unmounted the root

vars == <<code, language, isLoading, result, error, pending, readers, crashed>>

-----------------------------------------------------------------------------
(* Bounds of the model.                                                    *)

\* generateContent calls that may be outstanding together
MaxPending == 2
\* FileReader reads that may be outstanding together
MaxReaders == 1

-----------------------------------------------------------------------------
(* JavaScript values.                                                      *)

Str(s) == [t |-> "string", s |-> s]
Num(n) == [t |-> "number", n |-> n]
Arr(a) == [t |-> "array", a |-> a]
Obj(f) == [t |-> "object", f |-> f]
Null == [t |-> "null"]
Undefined == [t |-> "undefined"]

\* JavaScript truthiness, as used by `result && (...)`, `extension && ...`
Truthy(v) ==
    CASE v.t = "null" -> FALSE
      [] v.t = "undefined" -> FALSE
      [] v.t = "string" -> v.s # ""
      [] v.t = "number" -> v.n # 0
      [] OTHER -> TRUE

\* Property read v[key]; [throws |-> TRUE] is the TypeError of reading a
\* property of null or undefined.
Get(v, key) ==
    CASE v.t \in {"null", "undefined"} -> [throws |-> TRUE]
      [] v.t = "object" ->
            [throws |-> FALSE,
             v |-> IF key \in DOMAIN v.f THEN v.f[key] ELSE Undefined]
      [] v.t = "array" /\ key = "length" -> [throws |-> FALSE, v |-> Num(Len(v.a))]
      [] OTHER -> [throws |-> FALSE, v |-> Undefined]

-----------------------------------------------------------------------------
(* String.prototype.trim on a sequence of characters.                      *)

WhiteSpace == {" ", "\n", "\t"}

RECURSIVE TrimStart(_)
TrimStart(s) ==
    IF s # <<>> /\ Head(s) \in WhiteSpace THEN TrimStart(Tail(s)) ELSE s

RECURSIVE TrimEnd(_)
TrimEnd(s) ==
    IF s # <<>> /\ s[Len(s)] \in WhiteSpace
    THEN TrimEnd(SubSeq(s, 1, Len(s) - 1))
    ELSE s

\* a plausible slip: the text is tested without trimming
TrimNothing(s) == s

Trim(s) == TrimEnd(TrimStart(s))

-----------------------------------------------------------------------------
(* JSON.parse.  A JSON text is a sequence of tokens: the punctuation        *)
(* "{" "}" "[" "]" ":" ",", the literal null, string literals (written with *)
(* their quotes), number literals, and white space.  Anything else is not   *)
(* JSON.                                                                    *)

\* string literal tokens and the strings they denote
StringToken ==
    [tok \in {"\"score\"", "\"summary\"", "\"issues\"", "\"optimizedCode\"",
              "\"line\"", "\"issue\"", "\"suggestion\"", "\"Clean\"", "\"opt\"",
              "\"unused\"", "\"remove\"", "\"slow\"", "\"cache\"", "\"\""} |->
        CASE tok = "\"score\"" -> "score"
          [] tok = "\"summary\"" -> "summary"
          [] tok = "\"issues\"" -> "issues"
          [] tok = "\"optimizedCode\"" -> "optimizedCode"
          [] tok = "\"line\"" -> "line"
          [] tok = "\"issue\"" -> "issue"
          [] tok = "\"suggestion\"" -> "suggestion"
          [] tok = "\"Clean\"" -> "Clean"
          [] tok = "\"opt\"" -> "opt"
          [] tok = "\"unused\"" -> "unused"
          [] tok = "\"remove\"" -> "remove"
          [] tok = "\"slow\"" -> "slow"
          [] tok = "\"cache\"" -> "cache"
          [] tok = "\"\"" -> ""]

\* number literal tokens and the numbers they denote
NumberToken ==
    [tok \in {"0", "1", "2", "92", "150", "-5"} |->
        CASE tok = "0" -> 0
          [] tok = "1" -> 1
          [] tok = "2" -> 2
          [] tok = "92" -> 92
          [] tok = "150" -> 150
          [] tok = "-5" -> -5]

ParseFail == [ok |-> FALSE]
ParseOk(v, rest) == [ok |-> TRUE, v |-> v, rest |-> rest]

RECURSIVE ParseValue(_), ParseMembers(_, _), ParseElements(_, _)

\* one JSON value at the head of ts
ParseValue(ts) ==
    IF ts = <<>> THEN ParseFail
    ELSE LET h == Head(ts) IN
        CASE h = "{" ->
                IF Len(ts) >= 2 /\ ts[2] = "}"
                THEN ParseOk(Obj(<<>>), SubSeq(ts, 3, Len(ts)))
                ELSE ParseMembers(Tail(ts), <<>>)
          [] h = "[" ->
                IF Len(ts) >= 2 /\ ts[2] = "]"
                THEN ParseOk(Arr(<<>>), SubSeq(ts, 3, Len(ts)))
                ELSE ParseElements(Tail(ts), <<>>)
          [] h \in DOMAIN StringToken -> ParseOk(Str(StringToken[h]), Tail(ts))
          [] h \in DOMAIN NumberToken -> ParseOk(Num(NumberToken[h]), Tail(ts))
          [] h = "null" -> ParseOk(Null, Tail(ts))
          [] OTHER -> ParseFail

\* the members of an object after "{"; a repeated key keeps the last value
ParseMembers(ts, acc) ==
    IF Len(ts) < 3 \/ ts[1] \notin DOMAIN StringToken \/ ts[2] # ":"
    THEN ParseFail
    ELSE LET key == StringToken[ts[1]]
             r == ParseValue(SubSeq(ts, 3, Len(ts)))
         IN IF ~r.ok \/ r.rest = <<>> THEN ParseFail
            ELSE LET acc2 == [k \in DOMAIN acc \cup {key} |->
                                 IF k = key THEN r.v ELSE acc[k]]
                 IN CASE Head(r.rest) = "}" -> ParseOk(Obj(acc2), Tail(r.rest))
                      [] Head(r.rest) = "," -> ParseMembers(Tail(r.rest), acc2)
                      [] OTHER -> ParseFail

\* the elements of an array after "[", in order
ParseElements(ts, acc) ==
    LET r == ParseValue(ts)
    IN IF ~r.ok \/ r.rest = <<>> THEN ParseFail
       ELSE CASE Head(r.rest) = "]" -> ParseOk(Arr(Append(acc, r.v)), Tail(r.rest))
              [] Head(r.rest) = "," -> ParseElements(Tail(r.rest), Append(acc, r.v))
              [] OTHER -> ParseFail

\* a plausible slip: a lenient parse that yields null for text that is not JSON
JSONParseLenient(text) ==
    LET r == ParseValue(SelectSeq(text, LAMBDA c : c \notin WhiteSpace))
    IN IF r.ok /\ r.rest = <<>>
       THEN [throws |-> FALSE, v |-> r.v]
       ELSE [throws |-> FALSE, v |-> Null]

\* JSON.parse(text): the value, or a SyntaxError
JSONParse(text) ==
    LET r == ParseValue(SelectSeq(text, LAMBDA c : c \notin WhiteSpace))
    IN IF r.ok /\ r.rest = <<>>
       THEN [throws |-> FALSE, v |-> r.v]
       ELSE [throws |-> TRUE]

-----------------------------------------------------------------------------
(* handleFileChange: the language derived from the file name.              *)

LowerCase ==
    [c \in {"A", "B", "C", "D", "E", "F", "G", "H", "I", "J", "K", "L", "M",
            "N", "O", "P", "Q", "R", "S", "T", "U", "V", "W", "X", "Y", "Z"} |->
        CASE c = "A" -> "a" [] c = "B" -> "b" [] c = "C" -> "c" [] c = "D" -> "d"
          [] c = "E" -> "e" [] c = "F" -> "f" [] c = "G" -> "g" [] c = "H" -> "h"
          [] c = "I" -> "i" [] c = "J" -> "j" [] c = "K" -> "k" [] c = "L" -> "l"
          [] c = "M" -> "m" [] c = "N" -> "n" [] c = "O" -> "o" [] c = "P" -> "p"
          [] c = "Q" -> "q" [] c = "R" -> "r" [] c = "S" -> "s" [] c = "T" -> "t"
          [] c = "U" -> "u" [] c = "V" -> "v" [] c = "W" -> "w" [] c = "X" -> "x"
          [] c = "Y" -> "y" [] c = "Z" -> "z"]

\* String.prototype.toLowerCase, character by character
ToLowerCase(s) ==
    [i \in 1..Len(s) |-> IF s[i] \in DOMAIN LowerCase THEN LowerCase[s[i]] ELSE s[i]]

\* name.split('.').pop(): the characters after the last '.', or the whole
\* name when it has no '.'
RECURSIVE LastSegment(_)
LastSegment(s) ==
    IF \E i \in 1..Len(s) : s[i] = "." THEN LastSegment(Tail(s)) ELSE s

\* the characters of s as one string (a property name)
RECURSIVE Join(_)
Join(s) == IF s = <<>> THEN "" ELSE Head(s) \o Join(Tail(s))

\* file.name.split('.').pop()?.toLowerCase()
Extension(name) == Str(Join(ToLowerCase(LastSegment(name))))

\* Object.prototype and the Object constructor, which every object literal
\* inherits as __proto__ and constructor
ObjectPrototype == [t |-> "Object.prototype"]
ObjectConstructor == [t |-> "function", name |-> "Object"]

\* the own properties of the langMap literal
langMap ==
    [ext \in {"js", "py", "ts", "java", "cs", "cpp", "go", "rs"} |->
        CASE ext = "js" -> "javascript"
          [] ext = "py" -> "python"
          [] ext = "ts" -> "typescript"
          [] ext = "java" -> "java"
          [] ext = "cs" -> "csharp"
          [] ext = "cpp" -> "cpp"
          [] ext = "go" -> "go"
          [] ext = "rs" -> "rust"]

\* langMap[extension]: an own property, else one inherited from
\* Object.prototype, else undefined
LangMapGet(key) ==
    CASE key \in DOMAIN langMap -> Str(langMap[key])
      [] key = "constructor" -> ObjectConstructor
      [] key = "__proto__" -> ObjectPrototype
      [] OTHER -> Undefined

\* Object(x): a primitive string is wrapped in a String object
ObjectCall(x) == IF x.t = "string" THEN [t |-> "String", s |-> x.s] ELSE x

\* the useState setter: a function argument is an updater applied to the
\* previous state, anything else is the next state
SetStateAction(prev, arg) ==
    IF arg.t = "function" THEN ObjectCall(prev) ELSE arg

\* the language after handleFileChange's auto-detection
DetectLanguage(prev, name) ==
    LET extension == Extension(name)
    IN IF Truthy(extension) /\ Truthy(LangMapGet(extension.s))
       THEN SetStateAction(prev, LangMapGet(extension.s))
       ELSE prev

\* `${v}` in a template literal
ToStr(v) ==
    CASE v.t = "string" -> v.s
      [] v.t = "String" -> v.s
      [] OTHER -> "[object Object]"

-----------------------------------------------------------------------------
(* analyzeCode: the prompt, the try body and the render of its result.     *)

EmptyInputMsg == "Please enter some code to analyze."
AnalyzeErrorMsg == "An error occurred while analyzing the code. Please check your API key and try again."
FileReadErrorMsg == "Failed to read the uploaded file."
\* error === null
NoError == "null"

\* a plausible slip: the trimmed code is embedded instead of the code
PromptTrimmed(lang, src) ==
    <<"You are an expert code reviewer. Analyze the following ", ToStr(lang),
      " code ... Code to review: (fence)", ToStr(lang), "\n">> \o Trim(src) \o <<"\n", "(fence)">>

\* the template literal of lines 131-142: the language twice, the code once
Prompt(lang, src) ==
    <<"You are an expert code reviewer. Analyze the following ", ToStr(lang),
      " code ... Code to review: (fence)", ToStr(lang), "\n">> \o src \o <<"\n", "(fence)">>

\* lines 144-154 for the adapter's answer resp: the parsed value, or a throw
\* (the rejected promise, the TypeError of undefined.trim(), the SyntaxError)
TryBody(resp) ==
    IF resp.kind = "reject" THEN [throws |-> TRUE]
    ELSE IF resp.text.t = "undefined" THEN [throws |-> TRUE]
    ELSE JSONParse(Trim(resp.text.s))

\* a value React refuses as a child ("Objects are not valid as a React child")
RECURSIVE InvalidChild(_)
InvalidChild(v) ==
    \/ v.t = "object"
    \/ v.t = "array" /\ \E i \in 1..Len(v.a) : InvalidChild(v.a[i])

\* the render of the results panel (lines 557-602) throws
RenderThrows(r) ==
    /\ Truthy(r)
    /\ LET issues == Get(r, "issues").v
       IN \/ InvalidChild(Get(r, "score").v)
          \/ InvalidChild(Get(r, "summary").v)
          \/ InvalidChild(Get(r, "optimizedCode").v)
          \/ issues.t \in {"null", "undefined"}
          \/ issues.t = "string" /\ issues.s # ""
          \/ /\ issues.t = "array"
             /\ \E i \in 1..Len(issues.a) :
                   LET item == issues.a[i]
                   IN \/ item.t \in {"null", "undefined"}
                      \/ InvalidChild(Get(item, "line").v)
                      \/ InvalidChild(Get(item, "issue").v)
                      \/ InvalidChild(Get(item, "suggestion").v)

-----------------------------------------------------------------------------
(* The inputs: what the user types, selects and uploads, and what the      *)
(* adapter answers.                                                        *)

\* texts typed into the textarea or read from a file
CodeValues == {<<>>, <<" ", "\n">>, <<"x">>, <<" ", "y", "\n">>}

\* the option values of the language select (lines 511-518)
LanguageOptions ==
    {"javascript", "python", "typescript", "java", "csharp", "cpp", "go", "rust"}

\* the options the user picks
SelectedOptions == {"python", "rust"}

\* names of uploaded files
FileNames ==
    {<<"s", ".", "r", "s">>,
     <<"a", ".", "j", "s", ".", "R", "S">>,
     <<"n", ".", "t", "x", "t">>,
     <<"a", ".">>,
     <<"m", "k">>,
     <<"r", "s">>,
     <<"x", ".", "c", "o", "n", "s", "t", "r", "u", "c", "t", "o", "r">>,
     <<"x", ".", "_", "_", "p", "r", "o", "t", "o", "_", "_">>}

\* event.target.files: no file, or one file
FileLists == {<<>>} \cup {<<[name |-> n]>> : n \in FileNames}

IssueText(line, issue, suggestion) ==
    <<"{", "\"line\"", ":", line, ",", "\"issue\"", ":", issue, ",",
      "\"suggestion\"", ":", suggestion, "}">>

ResultText(score, summary, issues, optimizedCode) ==
    <<"{", "\"score\"", ":", score, ",", " ", "\"summary\"", ":", summary, ",",
      "\"issues\"", ":", "[">> \o issues \o
    <<"]", ",", "\"optimizedCode\"", ":", optimizedCode, "}">>

CleanText == <<"\n">> \o ResultText("92", "\"Clean\"", <<>>, "\"opt\"") \o <<"\n">>
TwoIssuesText ==
    ResultText("0", "\"Clean\"",
               IssueText("2", "\"unused\"", "\"remove\"") \o <<",">> \o
               IssueText("1", "\"slow\"", "\"cache\""),
               "\"opt\"")
ScoreTooHighText == ResultText("150", "\"Clean\"", <<>>, "\"opt\"")
ScoreNegativeText == ResultText("-5", "\"Clean\"", <<>>, "\"opt\"")
EmptyIssueText ==
    ResultText("92", "\"Clean\"", IssueText("1", "\"\"", "\"remove\""), "\"opt\"")
MissingFieldsText == <<"{", "\"score\"", ":", "92", "}">>
NullText == <<"null">>
NotJsonText == <<"not", " ", "json">>
TruncatedText == <<"{", "\"score\"", ":", "92", ",">>
EmptyText == <<" ">>

Fulfil(text) == [kind |-> "fulfil", text |-> [t |-> "string", s |-> text]]

\* how the generateContent promise settles: rejected, fulfilled with a response
\* whose text is undefined, or fulfilled with a text
Responses ==
    {[kind |-> "reject"], [kind |-> "fulfil", text |-> Undefined]} \cup
    {Fulfil(text) : text \in {CleanText, TwoIssuesText, ScoreTooHighText,
                              ScoreNegativeText, EmptyIssueText, MissingFieldsText,
                              NullText, NotJsonText, TruncatedText, EmptyText}}

\* the try body's outcome for each answer, evaluated once
TryOutcome == [resp \in Responses |-> TryBody(resp)]

-----------------------------------------------------------------------------
(* The state after the first render.                                       *)

Init ==
    /\ code = <<>>
    /\ language = Str("javascript")
    /\ isLoading = FALSE
    /\ result = Null
    /\ error = NoError
    /\ pending = <<>>
    /\ readers = 0
    /\ crashed = FALSE

-----------------------------------------------------------------------------
(* The handlers.                                                           *)

\* textarea onChange (line 541)
SetCode(text) ==
    /\ ~crashed
    /\ code' = text
    /\ UNCHANGED <<language, isLoading, result, error, pending, readers, crashed>>

\* select onChange (line 509)
SetLanguage(option) ==
    /\ ~crashed
    /\ option \in LanguageOptions
    /\ language' = Str(option)
    /\ UNCHANGED <<code, isLoading, result, error, pending, readers, crashed>>

\* handleFileChange (lines 38-74), up to reader.readAsText(file)
handleFileChange(files) ==
    /\ ~crashed
    /\ IF files = <<>>
       THEN UNCHANGED <<language, readers>>
       ELSE /\ readers < MaxReaders
            /\ language' = DetectLanguage(language, files[1].name)
            /\ readers' = readers + 1
    /\ UNCHANGED <<code, isLoading, result, error, pending, crashed>>

\* reader.onload (lines 60-65): readAsText always yields a string
ReaderOnLoad(text) ==
    /\ ~crashed
    /\ readers > 0
    /\ readers' = readers - 1
    /\ code' = text
    /\ UNCHANGED <<language, isLoading, result, error, pending, crashed>>

\* reader.onerror (lines 66-69)
ReaderOnError ==
    /\ ~crashed
    /\ readers > 0
    /\ readers' = readers - 1
    /\ error' = FileReadErrorMsg
    /\ UNCHANGED <<code, language, isLoading, result, pending, crashed>>

\* analyzeCode up to the await (lines 78-151)
analyzeCode ==
    /\ ~crashed
    /\ IF Trim(code) = <<>>
       THEN /\ error' = EmptyInputMsg
            /\ UNCHANGED <<isLoading, result, pending>>
       ELSE /\ Len(pending) < MaxPending
            /\ isLoading' = TRUE
            /\ result' = Null
            /\ error' = NoError
            /\ pending' = Append(pending, Prompt(language, code))
    /\ UNCHANGED <<code, language, readers, crashed>>

\* a plausible slip: the button is disabled only for blank code
DisabledWhenBlank == Trim(code) = <<>>

\* the analyze button's disabled attribute (line 544)
AnalyzeDisabled == isLoading \/ Trim(code) = <<>>

\* a click on the analyze button (line 544)
ClickAnalyze ==
    /\ ~AnalyzeDisabled
    /\ analyzeCode

\* analyzeCode after the await (lines 153-162), when the i-th outstanding
\* call settles as resp; the setters are batched into one render
Settle(i, resp) ==
    /\ ~crashed
    /\ i \in 1..Len(pending)
    /\ LET outcome == TryOutcome[resp]
       IN /\ result' = IF outcome.throws THEN result ELSE outcome.v
          /\ error' = IF outcome.throws THEN AnalyzeErrorMsg ELSE error
    /\ isLoading' = FALSE
    /\ pending' = SubSeq(pending, 1, i - 1) \o SubSeq(pending, i + 1, Len(pending))
    /\ crashed' = RenderThrows(result')
    /\ UNCHANGED <<code, language, readers>>

-----------------------------------------------------------------------------
(* The application: analyzeCode runs only as the analyze button's onClick. *)

Next ==
    \/ \E text \in CodeValues : SetCode(text)
    \/ \E option \in SelectedOptions : SetLanguage(option)
    \/ \E files \in FileLists : handleFileChange(files)
    \/ \E text \in CodeValues : ReaderOnLoad(text)
    \/ ReaderOnError
    \/ ClickAnalyze
    \/ \E i \in 1..MaxPending, resp \in Responses : Settle(i, resp)

Spec == Init /\ [][Next]_vars

(* The controller alone: analyzeCode called in any state, as the analyze   *)
(* entry point, without the button's disabled attribute in front of it.    *)

NextDirect ==
    \/ \E text \in CodeValues : SetCode(text)
    \/ \E option \in SelectedOptions : SetLanguage(option)
    \/ \E files \in FileLists : handleFileChange(files)
    \/ \E text \in CodeValues : ReaderOnLoad(text)
    \/ ReaderOnError
    \/ analyzeCode
    \/ \E i \in 1..MaxPending, resp \in Responses : Settle(i, resp)

SpecDirect == Init /\ [][NextDirect]_vars

-----------------------------------------------------------------------------
(* The claims.                                                             *)

\* code is empty or consists of white space only
BlankCode == \A i \in 1..Len(code) : code[i] \in WhiteSpace

\* C1: analyzeCode on empty or whitespace-only code sets error to the
\* empty-input message and starts no adapter call: no request is added and
\* isLoading is not touched, whatever the state it is invoked in.
C1_BlankAnalyzeIsEmptyInput ==
    [][(analyzeCode /\ BlankCode) =>
          /\ error' = EmptyInputMsg
          /\ pending' = pending
          /\ isLoading' = isLoading
          /\ result' = result]_vars

\* analyzeCode ran on whitespace-only code while a request was in flight
C1_Witness ==
    /\ error = EmptyInputMsg
    /\ code # <<>>
    /\ BlankCode
    /\ isLoading
    /\ pending # <<>>

\* C2: at most one adapter request is outstanding; while one is, the analyze
\* trigger cannot fire; and the settlement of that request leaves no request
\* outstanding and isLoading false.
C2_OneRequestInFlight ==
    /\ [](Len(pending) <= 1 /\ (pending # <<>> => ~ENABLED ClickAnalyze))
    /\ [][Len(pending') < Len(pending) => (pending' = <<>> /\ ~isLoading')]_vars

\* a request is in flight and the code in the textarea is not blank
C2_Witness ==
    /\ Len(pending) = 1
    /\ isLoading
    /\ ~BlankCode
    /\ ~crashed

\* an issue entry with a numeric line and non-empty issue and suggestion texts
WellFormedIssue(v) ==
    /\ v.t = "object"
    /\ {"line", "issue", "suggestion"} \subseteq DOMAIN v.f
    /\ v.f["line"].t = "number"
    /\ v.f["issue"].t = "string" /\ v.f["issue"].s # ""
    /\ v.f["suggestion"].t = "string" /\ v.f["suggestion"].s # ""

\* an AnalysisResult: the four required fields, the score an integer in
\* [0,100], every issue entry well formed
WellFormedResult(v) ==
    /\ v.t = "object"
    /\ {"score", "summary", "issues", "optimizedCode"} \subseteq DOMAIN v.f
    /\ v.f["score"].t = "number" /\ v.f["score"].n \in 0..100
    /\ v.f["summary"].t = "string"
    /\ v.f["optimizedCode"].t = "string"
    /\ v.f["issues"].t = "array"
    /\ \A i \in 1..Len(v.f["issues"].a) : WellFormedIssue(v.f["issues"].a[i])

C4_FailedHasNoResult == error # NoError => result = Null

\* answers whose text cannot be parsed as JSON
UnparseableResponses ==
    {[kind |-> "fulfil", text |-> Undefined],
     Fulfil(NotJsonText), Fulfil(TruncatedText), Fulfil(EmptyText)}

\* C5: when the adapter returns a text that is not JSON (or no text), the
\* settlement sets the analysis error, leaves result null and isLoading
\* false, and nothing is thrown out of the handler or the render.
C5_UnparseableIsFailed ==
    [][\A i \in 1..MaxPending, resp \in UnparseableResponses :
          Settle(i, resp) =>
             /\ error' = AnalyzeErrorMsg
             /\ result' = Null
             /\ ~isLoading'
             /\ ~crashed']_vars

\* a settled analysis that failed: the analysis error, no result, not loading
C5_Witness ==
    /\ error = AnalyzeErrorMsg
    /\ result = Null
    /\ ~isLoading
    /\ pending = <<>>
    /\ ~crashed

\* C6: when the adapter call fails, the settlement leaves result null and
\* isLoading false and sets an error that differs from the empty-input
\* error and from the error an unparseable response leads to (the step is
\* not also the settlement of an unparseable response).
C6_TransportFailureIsDistinct ==
    [][\A i \in 1..MaxPending :
          Settle(i, [kind |-> "reject"]) =>
             /\ result' = Null
             /\ ~isLoading'
             /\ error' \notin {NoError, EmptyInputMsg}
             /\ \A resp \in UnparseableResponses : ~Settle(i, resp)]_vars

\* the value a well-formed text denotes
IssueValue(line, issue, suggestion) ==
    Obj([line |-> Num(line), issue |-> Str(issue), suggestion |-> Str(suggestion)])

ResultValue(score, summary, issues, optimizedCode) ==
    Obj([score |-> Num(score), summary |-> Str(summary), issues |-> Arr(issues),
         optimizedCode |-> Str(optimizedCode)])

\* the well-formed answers with the result each one states
WellFormedAnswers ==
    {[resp |-> Fulfil(CleanText), value |-> ResultValue(92, "Clean", <<>>, "opt")],
     [resp |-> Fulfil(TwoIssuesText),
      value |-> ResultValue(0, "Clean",
                            <<IssueValue(2, "unused", "remove"),
                              IssueValue(1, "slow", "cache")>>,
                            "opt")]}

\* C7: when the adapter returns a well-formed response, the settlement puts
\* exactly its values in result (same score, summary and optimizedCode, the
\* issues in the same number and order), with error null and isLoading false.
C7_WellFormedIsSuccess ==
    [][\A i \in 1..MaxPending, w \in WellFormedAnswers :
          Settle(i, w.resp) =>
             /\ result' = w.value
             /\ error' = NoError
             /\ ~isLoading']_vars

\* the part of C7 about the values alone
C7_ValuesPreserved ==
    [][\A i \in 1..MaxPending, w \in WellFormedAnswers :
          Settle(i, w.resp) => (result' = w.value /\ ~isLoading')]_vars

\* the language the table gives for a file name: the mapped language when the
\* last '.'-separated part of the name, in lower case, is one of the eight
\* keys, else the language selected before
TableLanguage(prev, name) ==
    LET ext == Join(ToLowerCase(LastSegment(name)))
    IN IF ext \in DOMAIN langMap THEN Str(langMap[ext]) ELSE prev

\* C8: an upload sets the language the table gives for the file's last
\* extension, and leaves it unchanged for any name whose extension is not
\* one of the eight keys (names without a dot, x.constructor and x.__proto__
\* included).
C8_LanguageFromExtension ==
    [][\A n \in FileNames :
          handleFileChange(<<[name |-> n]>>) => language' = TableLanguage(language, n)]_vars

\* C9: from the dispatch of a request until its settlement, result is null,
\* error is null and isLoading is true.
C9_InFlightIsClean ==
    pending # <<>> => (result = Null /\ error = NoError /\ isLoading)

\* the part of C9 about the dispatch step alone
C9_DispatchDiscards ==
    [][Len(pending') > Len(pending) =>
          (result' = Null /\ error' = NoError /\ isLoading')]_vars

\* C10: isLoading falls only when the adapter call settles, and every
\* settlement leaves exactly one of a populated result (Success) and an
\* error (Failed), with isLoading false and nothing thrown.
C10_SettlesInSuccessOrFailed ==
    [][/\ (isLoading /\ ~isLoading') =>
             \E i \in 1..MaxPending, resp \in Responses : Settle(i, resp)
       /\ \A i \in 1..MaxPending, resp \in Responses :
             Settle(i, resp) =>
                /\ ~isLoading'
                /\ ~crashed'
                /\ (result' # Null) # (error' # NoError)]_vars

\* the part of C10 about leaving the in-flight state
C10_LeavesInFlightBySettlement ==
    [][(isLoading /\ ~isLoading') =>
          \E i \in 1..MaxPending, resp \in Responses : Settle(i, resp)]_vars

\* C11: the flags encode one RequestState: while isLoading is true both
\* result and error are null, and isLoading is true exactly when an adapter
\* request is outstanding.
C11_FlagsEncodeOneState ==
    /\ isLoading => (result = Null /\ error = NoError)
    /\ isLoading <=> pending # <<>>

\* the part of C11 about isLoading and the outstanding request
C11_LoadingIffOutstanding == isLoading <=> pending # <<>>

\* the language named in a request's prompt (both places) and the code it embeds
RequestLanguages(prompt) == {prompt[2], prompt[4]}
RequestCode(prompt) == SubSeq(prompt, 6, Len(prompt) - 2)

\* C12: the request sent is made of the language and the code current when
\* analyze was invoked (the code verbatim), and while it is in flight every
\* step other than its settlement (editing the code, choosing a language,
\* uploading a file, a reader calling back) leaves the request, isLoading and
\* result unchanged, and error too unless it is an upload read error.
C12_RequestIsImmutable ==
    [][/\ Len(pending') > Len(pending) =>
             /\ pending' = Append(pending, pending'[Len(pending')])
             /\ RequestLanguages(pending'[Len(pending')]) = {ToStr(language)}
             /\ RequestCode(pending'[Len(pending')]) = code
       /\ (pending # <<>> /\ Len(pending') = Len(pending)) =>
             /\ pending' = pending
             /\ isLoading' = isLoading
             /\ result' = result
             /\ \/ error' = error
                \/ readers' < readers /\ error' = FileReadErrorMsg]_vars

\* a request is in flight and both the code and the language were changed
\* after it was sent
C12_Witness ==
    /\ Len(pending) = 1
    /\ RequestCode(pending[1]) # code
    /\ ToStr(language) \notin RequestLanguages(pending[1])
    /\ isLoading
    /\ result = Null
    /\ error = NoError

====
